---- MODULE Spec2Model ----
(***************************************************************************)
(* Model of hash/hash_comparator.go: the password-hash dispatcher          *)
(* (Compare), the per-scheme comparators, the classifier predicates and    *)
(* the Argon2 / PBKDF2 / Scrypt decoders.                                  *)
(*                                                                         *)
(* An encoded hash is a sequence of one-character strings, a password and  *)
(* every decoded salt or digest is a sequence of bytes (0..255).  The      *)
(* conversions the code relies on (strings.Split, fmt.Sscanf, base64       *)
(* decoding, the regular expressions) are computed character by character. *)
(* The key-derivation primitives of the libraries are deterministic        *)
(* stand-ins that keep the primitives' contract: the output length is the  *)
(* requested key length, the output depends on every input, and the        *)
(* primitives' parameter checks (errors and panics) are kept.              *)
(***************************************************************************)
EXTENDS Integers, Sequences, FiniteSets, TLC

VARIABLES password, hash, gen, rets, logs

vars == <<password, hash, gen, rets, logs>>

-----------------------------------------------------------------------------
(* Characters and byte strings *)

Digits == <<"0","1","2","3","4","5","6","7","8","9">>

IsDigit(c) == \E i \in 1..10 : Digits[i] = c

DigitVal(c) == (CHOOSE i \in 1..10 : Digits[i] = c) - 1

\* encoding/base64: the standard alphabet (StdEncoding, RawStdEncoding).
B64Std == <<"A","B","C","D","E","F","G","H","I","J","K","L","M","N","O","P",
            "Q","R","S","T","U","V","W","X","Y","Z","a","b","c","d","e","f",
            "g","h","i","j","k","l","m","n","o","p","q","r","s","t","u","v",
            "w","x","y","z","0","1","2","3","4","5","6","7","8","9","+","/">>

\* x/crypto/bcrypt: the alphabet of bcrypt's own base64 variant.
B64Bcrypt == <<".","/","A","B","C","D","E","F","G","H","I","J","K","L","M","N",
               "O","P","Q","R","S","T","U","V","W","X","Y","Z","a","b","c","d",
               "e","f","g","h","i","j","k","l","m","n","o","p","q","r","s","t",
               "u","v","w","x","y","z","0","1","2","3","4","5","6","7","8","9">>

InAlphabet(alpha, c) == \E i \in 1..64 : alpha[i] = c

AlphaVal(alpha, c) == (CHOOSE i \in 1..64 : alpha[i] = c) - 1

HasPrefix(s, p) == Len(s) >= Len(p) /\ SubSeq(s, 1, Len(p)) = p

Drop(s, n) == SubSeq(s, n + 1, Len(s))

\* strings.Index(s, sep) for a one-character separator: 0 when absent.
IndexOf(s, sep) ==
    IF \E i \in 1..Len(s) : s[i] = sep
    THEN CHOOSE i \in 1..Len(s) : s[i] = sep /\ \A j \in 1..(i - 1) : s[j] # sep
    ELSE 0

\* The only member of a one-element set.  The({F(x) : x \in {e}}) is F(e)
\* with e evaluated once.
The(S) == CHOOSE x \in S : TRUE

\* strings.Split(s, sep) for a one-character separator: n separators make
\* n + 1 fields, field k being the text between separators k - 1 and k (the
\* ends of s standing in for separators 0 and n + 1); a field may be empty.
SplitAt(s, seps) ==
    LET edge(k) == IF k = 0 THEN 0
                   ELSE IF k > Cardinality(seps) THEN Len(s) + 1
                   ELSE CHOOSE i \in seps : Cardinality({j \in seps : j < i}) = k - 1
    IN  [k \in 1..(Cardinality(seps) + 1) |-> SubSeq(s, edge(k - 1) + 1, edge(k) - 1)]

Split(s, sep) ==
    The({ SplitAt(t, {i \in 1..Len(t) : t[i] = sep}) : t \in {s} })

\* strings.SplitN(s, sep, 2): split at the first separator only.
SplitN2(s, sep) ==
    LET i == IndexOf(s, sep)
    IN  IF i = 0 THEN <<s>> ELSE <<SubSeq(s, 1, i - 1), Drop(s, i)>>

\* strings.Join(parts, sep) of the first n parts.
RECURSIVE JoinUpTo(_, _, _)
JoinUpTo(parts, sep, n) ==
    IF n = 0 THEN <<>>
    ELSE IF n = 1 THEN parts[1]
    ELSE JoinUpTo(parts, sep, n - 1) \o <<sep>> \o parts[n]

Join(parts, sep) == The({ JoinUpTo(ps, sep, Len(ps)) : ps \in {parts} })

-----------------------------------------------------------------------------
(* fmt.Sscanf *)

\* The length of the run of decimal digits of s that starts at position pos.
DigitRunLen(s, pos) ==
    CHOOSE n \in 0..(Len(s) + 1 - pos) :
        /\ \A i \in pos..(pos + n - 1) : IsDigit(s[i])
        /\ pos + n <= Len(s) => ~IsDigit(s[pos + n])

\* The value of the decimal digits s[from..to].
RECURSIVE DecimalValue(_, _, _)
DecimalValue(s, from, to) ==
    IF to < from THEN 0
    ELSE 10 * DecimalValue(s, from, to - 1) + DigitVal(s[to])

\* fmt.Sscanf(s, format, ...): format is a sequence of literal characters and
\* of "%d" verbs.  A literal must match the next input character; a verb reads
\* an optional sign (signed targets only) and a non-empty run of digits.
\* Input left over after the format is ignored.  bits gives the width of each
\* verb's target: a value that does not fit is an "integer overflow" scan
\* error (decided here for the widths below 31 bits; the inputs of the model
\* have at most nine digits, which fit wider targets).  Returns the scanned
\* values, or the scan error.  k is the position in format, pos in s.
RECURSIVE ScanFrom(_, _, _, _, _, _, _)
ScanFrom(s, pos, format, k, signed, bits, vals) ==
    IF k > Len(format) THEN [err |-> "nil", vals |-> vals]
    ELSE IF format[k] = "%d"
    THEN LET neg == signed /\ pos <= Len(s) /\ s[pos] = "-"
             p1  == IF signed /\ pos <= Len(s) /\ s[pos] \in {"+", "-"}
                    THEN pos + 1 ELSE pos
         IN  The({ IF n = 0 THEN [err |-> "fmt.ScanError", vals |-> <<>>]
                   ELSE The({ IF bits[Len(vals) + 1] < 31 /\ v >= 2 ^ bits[Len(vals) + 1]
                              THEN [err |-> "fmt.ScanError", vals |-> <<>>]
                              ELSE ScanFrom(s, q + n, format, k + 1, signed, bits,
                                            Append(vals, IF neg THEN 0 - v ELSE v)) :
                              v \in {DecimalValue(s, q, q + n - 1)} }) :
                   q \in {p1}, n \in {DigitRunLen(s, p1)} })
    ELSE IF pos <= Len(s) /\ s[pos] = format[k]
         THEN ScanFrom(s, pos + 1, format, k + 1, signed, bits, vals)
         ELSE [err |-> "fmt.ScanError", vals |-> <<>>]

Sscanf(s, format, signed, bits) ==
    The({ ScanFrom(t, 1, format, 1, signed, bits, <<>>) : t \in {s} })

-----------------------------------------------------------------------------
(* encoding/base64 *)

\* The bytes of a run of base64 characters without padding: a group of four
\* characters gives three bytes, a final group of two gives one byte and a
\* final group of three gives two.  strict: the unused low bits of a final
\* group must be zero.  A final group of one character is corrupt input.
GroupByte(alpha, s, k) ==
    LET g    == 4 * ((k - 1) \div 3)
        v(i) == AlphaVal(alpha, s[g + i])
    IN  IF (k - 1) % 3 = 0 THEN v(1) * 4 + (v(2) \div 16)
        ELSE IF (k - 1) % 3 = 1 THEN (v(2) % 16) * 16 + (v(3) \div 4)
        ELSE (v(3) % 4) * 64 + v(4)

DecodeGroups(alpha, s, strict) ==
    LET n    == Len(s)
        last == AlphaVal(alpha, s[n])
    IN  IF \/ n % 4 = 1
           \/ strict /\ n % 4 = 2 /\ last % 16 # 0
           \/ strict /\ n % 4 = 3 /\ last % 4 # 0
        THEN [err |-> "base64.CorruptInputError", bytes |-> <<>>]
        ELSE [err |-> "nil",
              bytes |-> [k \in 1..(3 * (n \div 4) + (IF n % 4 = 0 THEN 0 ELSE (n % 4) - 1))
                           |-> GroupByte(alpha, s, k)]]

\* base64.RawStdEncoding.Strict().DecodeString: no padding character allowed.
DecodeRawStd(s) ==
    IF \E i \in 1..Len(s) : ~InAlphabet(B64Std, s[i])
    THEN [err |-> "base64.CorruptInputError", bytes |-> <<>>]
    ELSE The({ DecodeGroups(B64Std, t, TRUE) : t \in {s} })

\* base64.StdEncoding.DecodeString, with Strict() when strict: the input is a
\* whole number of four-character groups, the last of which may end in "=" or
\* "==".
DecodeStd(s, strict) ==
    LET n    == Len(s)
        pad  == IF n >= 2 /\ s[n] = "=" /\ s[n - 1] = "=" THEN 2
                ELSE IF n >= 1 /\ s[n] = "=" THEN 1 ELSE 0
        body == SubSeq(s, 1, n - pad)
    IN  IF n % 4 # 0 \/ (\E i \in 1..Len(body) : ~InAlphabet(B64Std, body[i]))
        THEN [err |-> "base64.CorruptInputError", bytes |-> <<>>]
        ELSE The({ DecodeGroups(B64Std, t, strict) : t \in {body} })

-----------------------------------------------------------------------------
(* Error values.  Each name is one Go error value (or error type); "nil" is  *)
(* success and "panic" is a call that does not return.                       *)

ErrUnknownHashAlgorithm == "ErrUnknownHashAlgorithm"

ErrInvalidHash == "ErrInvalidHash"

ErrIncompatibleVersion == "ErrIncompatibleVersion"

ErrMismatchedHashAndPassword == "ErrMismatchedHashAndPassword"

-----------------------------------------------------------------------------
(* Stand-ins for the key-derivation primitives *)

\* The sum of i * bs[i] for i in lo..hi, modulo 256.
RECURSIVE WeighRange(_, _, _)
WeighRange(bs, lo, hi) ==
    IF lo > hi THEN 0
    ELSE IF lo = hi THEN (lo * bs[lo]) % 256
    ELSE (WeighRange(bs, lo, (lo + hi) \div 2)
          + WeighRange(bs, ((lo + hi) \div 2) + 1, hi)) % 256

Weigh(bs) == The({ WeighRange(t, 1, Len(t)) : t \in {bs} })

Fold(n) == n % 251

\* What the derived key depends on: the primitive, the password, the salt and
\* the three cost parameters.
KeySeed(tag, pw, salt, a, b, c) ==
    (tag + 3 * Weigh(pw) + 5 * Weigh(salt) + 7 * Fold(a) + 11 * Fold(b)
         + 13 * Fold(c)) % 256

\* Byte i of the derived key.
KeyByte(seed, i) == (seed + 17 * i) % 256

DeriveKey(tag, pw, salt, a, b, c, keyLen) ==
    The({ [i \in 1..keyLen |-> KeyByte(seed, i)] :
          seed \in {KeySeed(tag, pw, salt, a, b, c)} })

\* argon2.IDKey / argon2.Key (mode 2 / mode 1): both panic when the number of
\* rounds or the parallelism degree is below 1 and return keyLen bytes
\* otherwise.
Argon2Key(mode, pw, salt, time, memory, threads, keyLen) ==
    IF time < 1 \/ threads < 1 THEN [panic |-> TRUE, key |-> <<>>]
    ELSE [panic |-> FALSE,
          key |-> DeriveKey(10 + mode + 23 * keyLen, pw, salt, time, memory, threads, keyLen)]

\* pbkdf2.Key(password, salt, iter, keyLen, h): always returns keyLen bytes.
\* prf names the hash constructor (one tag per digest algorithm).
Pbkdf2Key(pw, salt, iter, keyLen, prf) ==
    DeriveKey(30 + prf, pw, salt, iter, 0, 0, keyLen)

IsPowerOfTwo(n) == \E k \in 0..30 : n = 2 ^ k

\* scrypt.Key(password, salt, N, r, p, keyLen): rejects a cost N that is not
\* a power of two greater than 1 and parameters that are too large; its size
\* check divides by r and by p, so a zero r or p panics.
ScryptKey(pw, salt, N, r, p, keyLen) ==
    IF N <= 1 \/ ~IsPowerOfTwo(N)
    THEN [err |-> "scrypt.Error", panic |-> FALSE, key |-> <<>>]
    ELSE IF r = 0 \/ p = 0 THEN [err |-> "nil", panic |-> TRUE, key |-> <<>>]
    ELSE IF r * p >= 2 ^ 30
    THEN [err |-> "scrypt.Error", panic |-> FALSE, key |-> <<>>]
    ELSE [err |-> "nil", panic |-> FALSE,
          key |-> DeriveKey(50, pw, salt, N, r, p, keyLen)]

\* subtle.ConstantTimeCompare(x, y): 1 when the slices are equal, 0 otherwise
\* (also when their lengths differ).
ConstantTimeCompare(x, y) == IF x = y THEN 1 ELSE 0

-----------------------------------------------------------------------------
(* base64 encoding: used by the salted-digest validators and by the external *)
(* hashers that produce the stored hashes.                                    *)

\* Character k of the encoding: three bytes give four characters, a final
\* group of one byte gives two and a final group of two gives three.
GroupChar(alpha, bs, k) ==
    LET g    == 3 * ((k - 1) \div 4)
        b(i) == IF g + i <= Len(bs) THEN bs[g + i] ELSE 0
    IN  IF (k - 1) % 4 = 0 THEN alpha[(b(1) \div 4) + 1]
        ELSE IF (k - 1) % 4 = 1 THEN alpha[(b(1) % 4) * 16 + (b(2) \div 16) + 1]
        ELSE IF (k - 1) % 4 = 2 THEN alpha[(b(2) % 16) * 4 + (b(3) \div 64) + 1]
        ELSE alpha[(b(3) % 64) + 1]

EncodeGroups(alpha, bs) ==
    The({ [k \in 1..(4 * (Len(t) \div 3) + (IF Len(t) % 3 = 0 THEN 0 ELSE (Len(t) % 3) + 1))
             |-> GroupChar(alpha, t, k)] : t \in {bs} })

\* base64.RawStdEncoding.EncodeToString
EncodeRawStd(bs) == EncodeGroups(B64Std, bs)

\* base64.StdEncoding.EncodeToString
EncodeStd(bs) ==
    EncodeGroups(B64Std, bs)
        \o (IF Len(bs) % 3 = 1 THEN <<"=", "=">>
            ELSE IF Len(bs) % 3 = 2 THEN <<"=">> ELSE <<>>)

-----------------------------------------------------------------------------
(* x/crypto/bcrypt *)

\* The characters whose byte value is at most that of '2' (bcrypt's
\* majorVersion), among the characters of the model's hashes.
UpToMajorVersion == {"$", "+", ",", "-", ".", "/", "0", "1", "2"}

\* The 31 characters bcrypt derives from a password, a cost and a 22-character
\* salt.
BcryptDigest(pw, cost, salt) ==
    The({ [i \in 1..31 |-> B64Bcrypt[(KeyByte(seed, i) % 64) + 1]] :
          seed \in {KeySeed(70, pw, [k \in 1..22 |-> AlphaVal(B64Bcrypt, salt[k])],
                            cost, 0, 0)} })

\* strconv.Atoi of the two cost characters: [ok, val].
AtoiTwo(c1, c2) ==
    IF IsDigit(c1) /\ IsDigit(c2)
    THEN [ok |-> TRUE, val |-> 10 * DigitVal(c1) + DigitVal(c2)]
    ELSE IF c1 \in {"+", "-"} /\ IsDigit(c2)
    THEN [ok |-> TRUE, val |-> IF c1 = "-" THEN 0 - DigitVal(c2) ELSE DigitVal(c2)]
    ELSE [ok |-> FALSE, val |-> 0]

\* bcrypt.CompareHashAndPassword(hashedPassword, password): newFromHash
\* (minimum size 59, '$', major version, optional minor version, two-digit cost
\* between 4 and 31, 22 salt characters, the rest is the digest), then the
\* digest of the password is compared with the stored one.
BcryptCompareHashAndPassword(h, pw) ==
    IF Len(h) < 59 THEN "bcrypt.ErrHashTooShort"
    ELSE IF h[1] # "$" THEN "bcrypt.InvalidHashPrefixError"
    ELSE IF h[2] \notin UpToMajorVersion THEN "bcrypt.HashVersionTooNewError"
    ELSE LET n      == IF h[3] # "$" THEN 4 ELSE 3
             cost   == AtoiTwo(h[n + 1], h[n + 2])
             salt   == SubSeq(h, n + 4, n + 25)
             digest == Drop(h, n + 25)
         IN  IF ~cost.ok THEN "strconv.NumError"
             ELSE IF cost.val < 4 \/ cost.val > 31 THEN "bcrypt.InvalidCostError"
             ELSE IF \E k \in 1..22 : ~InAlphabet(B64Bcrypt, salt[k])
             THEN "base64.CorruptInputError"
             ELSE IF ConstantTimeCompare(digest, BcryptDigest(pw, cost.val, salt)) = 1
             THEN "nil"
             ELSE "bcrypt.ErrMismatchedHashAndPassword"

-----------------------------------------------------------------------------
(* github.com/jsimonetti/pwscheme: ssha, ssha256, ssha512 *)

\* The digest of the salted password: size bytes.
SaltedDigest(size, pw, salt) == DeriveKey(90 + size, pw, salt, 0, 0, 0, size)

\* Validate(password, hash) of the three packages: the hash must begin with
\* the package's marker and hold the base64 of digest || salt with at least
\* one byte of salt; the digest of the password with that salt is encoded
\* again and compared with the text after the marker.  TRUE when it validates
\* (a nil error).
SaltedValidate(marker, size, pw, h) ==
    IF Len(h) < Len(marker) + 1 \/ ~HasPrefix(h, marker) THEN FALSE
    ELSE LET text == Drop(h, Len(marker))
             data == DecodeStd(text, FALSE)
         IN  IF data.err # "nil" \/ Len(data.bytes) < size + 1 THEN FALSE
             ELSE LET salt == Drop(data.bytes, size)
                  IN  EncodeStd(SaltedDigest(size, pw, salt) \o salt) = text

-----------------------------------------------------------------------------
(* The result of a comparator: ret is the error it returns ("nil", an error  *)
(* value, or "panic"), calls the library calls it made, in order, each with  *)
(* its outcome.                                                              *)

Call(fn, out) == [fn |-> fn, out |-> out]

Result(ret, calls) == [ret |-> ret, calls |-> calls]

-----------------------------------------------------------------------------
(* Helpers of the package that live in other files *)

BcryptMaxLength == 72

\* validateBcryptPasswordLength(password): an error when the password is
\* longer than bcrypt's 72 bytes.
validateBcryptPasswordLength(pw) ==
    IF Len(pw) > BcryptMaxLength THEN "ErrPasswordTooLong" ELSE "nil"

\* getPseudorandomFunctionForPbkdf2(alg): the hash constructor of one of the
\* five supported digests (1..5); 0 when the name is none of them and the
\* selection fails.
getPseudorandomFunctionForPbkdf2(alg) ==
    IF alg = <<"s","h","a","1">> THEN 1
    ELSE IF alg = <<"s","h","a","2","2","4">> THEN 2
    ELSE IF alg = <<"s","h","a","2","5","6">> THEN 3
    ELSE IF alg = <<"s","h","a","3","8","4">> THEN 4
    ELSE IF alg = <<"s","h","a","5","1","2">> THEN 5
    ELSE 0

-----------------------------------------------------------------------------
(* Decoders *)

Argon2Version == 19

NoParams == [Algorithm |-> <<>>]

Decoded(err, p, salt, digest, calls) ==
    [err |-> err, p |-> p, salt |-> salt, hash |-> digest, calls |-> calls]

DecodeFailed(err, calls) == Decoded(err, NoParams, <<>>, <<>>, calls)

\* The calls of a decoder so far, followed by one more.
Then(calls, fn, out) == Append(calls, Call(fn, out))

\* decodeArgon2idHash(encodedHash), after the version check.
decodeArgon2idParams(parts, c2) ==
    The({ IF params.err # "nil" THEN DecodeFailed(params.err, c3)
          ELSE The({ IF salt.err # "nil" THEN DecodeFailed(salt.err, c4)
                     ELSE The({ IF digest.err # "nil" THEN DecodeFailed(digest.err, c5)
                                ELSE Decoded("nil",
                                             [Memory      |-> params.vals[1],
                                              Iterations  |-> params.vals[2],
                                              Parallelism |-> params.vals[3],
                                              SaltLength  |-> Len(salt.bytes),
                                              KeyLength   |-> Len(digest.bytes)],
                                             salt.bytes, digest.bytes, c5) :
                                digest \in {DecodeRawStd(parts[6])},
                                c5 \in {Then(c4, "base64.DecodeString",
                                             DecodeRawStd(parts[6]).err)} }) :
                     salt \in {DecodeRawStd(parts[5])},
                     c4 \in {Then(c3, "base64.DecodeString", DecodeRawStd(parts[5]).err)} }) :
          params \in {Sscanf(parts[4],
                             <<"m", "=", "%d", ",", "t", "=", "%d", ",", "p", "=", "%d">>,
                             FALSE, <<64, 32, 8>>)},
          c3 \in {Then(c2, "fmt.Sscanf",
                       Sscanf(parts[4],
                              <<"m", "=", "%d", ",", "t", "=", "%d", ",", "p", "=", "%d">>,
                              FALSE, <<64, 32, 8>>).err)} })

\* A wrong decodeArgon2idHash: the version is compared only after the
\* parameters, the salt and the digest have been parsed.
decodeArgon2idHashVersionLast(encodedHash) ==
    The({ IF Len(parts) # 6
          THEN DecodeFailed(ErrInvalidHash, <<Call("strings.Split", "ok")>>)
          ELSE The({ IF version.err # "nil" THEN DecodeFailed(version.err, c2)
                     ELSE The({ IF d.err # "nil" THEN d
                                ELSE IF version.vals[1] # Argon2Version
                                THEN DecodeFailed(ErrIncompatibleVersion, d.calls)
                                ELSE d :
                                d \in {decodeArgon2idParams(parts, c2)} }) :
                     version \in {Sscanf(parts[3], <<"v", "=", "%d">>, TRUE, <<64>>)},
                     c2 \in {<<Call("strings.Split", "ok"),
                               Call("fmt.Sscanf",
                                    Sscanf(parts[3], <<"v", "=", "%d">>, TRUE, <<64>>).err)>>} }) :
          parts \in {Split(encodedHash, "$")} })

\* decodeArgon2idHash(encodedHash)
decodeArgon2idHash(encodedHash) ==
    The({ IF Len(parts) # 6
          THEN DecodeFailed(ErrInvalidHash, <<Call("strings.Split", "ok")>>)
          ELSE The({ IF version.err # "nil" THEN DecodeFailed(version.err, c2)
                     ELSE IF version.vals[1] # Argon2Version
                     THEN DecodeFailed(ErrIncompatibleVersion, c2)
                     ELSE decodeArgon2idParams(parts, c2) :
                     version \in {Sscanf(parts[3], <<"v", "=", "%d">>, TRUE, <<64>>)},
                     c2 \in {<<Call("strings.Split", "ok"),
                               Call("fmt.Sscanf",
                                    Sscanf(parts[3], <<"v", "=", "%d">>, TRUE, <<64>>).err)>>} }) :
          parts \in {Split(encodedHash, "$")} })

\* A wrong decodePbkdf2Hash: the key length stays the one scanned from l=.
decodePbkdf2ParamsScannedLength(parts, alg, c2) ==
    The({ IF params.err # "nil" THEN DecodeFailed(params.err, c3)
          ELSE The({ IF salt.err # "nil" THEN DecodeFailed(salt.err, c4)
                     ELSE The({ IF digest.err # "nil" THEN DecodeFailed(digest.err, c5)
                                ELSE Decoded("nil",
                                             [Algorithm  |-> alg,
                                              Iterations |-> params.vals[1],
                                              SaltLength |-> Len(salt.bytes),
                                              KeyLength  |-> params.vals[2]],
                                             salt.bytes, digest.bytes, c5) :
                                digest \in {DecodeRawStd(parts[5])},
                                c5 \in {Then(c4, "base64.DecodeString",
                                             DecodeRawStd(parts[5]).err)} }) :
                     salt \in {DecodeRawStd(parts[4])},
                     c4 \in {Then(c3, "base64.DecodeString", DecodeRawStd(parts[4]).err)} }) :
          params \in {Sscanf(parts[3], <<"i", "=", "%d", ",", "l", "=", "%d">>,
                             FALSE, <<32, 32>>)},
          c3 \in {Then(c2, "fmt.Sscanf",
                       Sscanf(parts[3], <<"i", "=", "%d", ",", "l", "=", "%d">>,
                              FALSE, <<32, 32>>).err)} })

\* decodePbkdf2Hash(encodedHash), after the digest name.
decodePbkdf2Params(parts, alg, c2) ==
    The({ IF params.err # "nil" THEN DecodeFailed(params.err, c3)
          ELSE The({ IF salt.err # "nil" THEN DecodeFailed(salt.err, c4)
                     ELSE The({ IF digest.err # "nil" THEN DecodeFailed(digest.err, c5)
                                ELSE Decoded("nil",
                                             [Algorithm  |-> alg,
                                              Iterations |-> params.vals[1],
                                              SaltLength |-> Len(salt.bytes),
                                              KeyLength  |-> Len(digest.bytes)],
                                             salt.bytes, digest.bytes, c5) :
                                digest \in {DecodeRawStd(parts[5])},
                                c5 \in {Then(c4, "base64.DecodeString",
                                             DecodeRawStd(parts[5]).err)} }) :
                     salt \in {DecodeRawStd(parts[4])},
                     c4 \in {Then(c3, "base64.DecodeString", DecodeRawStd(parts[4]).err)} }) :
          params \in {Sscanf(parts[3], <<"i", "=", "%d", ",", "l", "=", "%d">>,
                             FALSE, <<32, 32>>)},
          c3 \in {Then(c2, "fmt.Sscanf",
                       Sscanf(parts[3], <<"i", "=", "%d", ",", "l", "=", "%d">>,
                              FALSE, <<32, 32>>).err)} })

\* A wrong decodePbkdf2Hash: fields after the fifth are ignored.
decodePbkdf2HashLenient(encodedHash) ==
    The({ IF Len(parts) < 5
          THEN DecodeFailed(ErrInvalidHash, <<Call("strings.Split", "ok")>>)
          ELSE The({ IF Len(digestParts) # 2
                     THEN DecodeFailed(ErrInvalidHash,
                                       <<Call("strings.Split", "ok"),
                                         Call("strings.SplitN", "ok")>>)
                     ELSE decodePbkdf2Params(parts, digestParts[2],
                                             <<Call("strings.Split", "ok"),
                                               Call("strings.SplitN", "ok")>>) :
                     digestParts \in {SplitN2(parts[2], "-")} }) :
          parts \in {Split(encodedHash, "$")} })

\* decodePbkdf2Hash(encodedHash)
decodePbkdf2Hash(encodedHash) ==
    The({ IF Len(parts) # 5
          THEN DecodeFailed(ErrInvalidHash, <<Call("strings.Split", "ok")>>)
          ELSE The({ IF Len(digestParts) # 2
                     THEN DecodeFailed(ErrInvalidHash,
                                       <<Call("strings.Split", "ok"),
                                         Call("strings.SplitN", "ok")>>)
                     ELSE decodePbkdf2Params(parts, digestParts[2],
                                             <<Call("strings.Split", "ok"),
                                               Call("strings.SplitN", "ok")>>) :
                     digestParts \in {SplitN2(parts[2], "-")} }) :
          parts \in {Split(encodedHash, "$")} })

\* decodeScryptHash(encodedHash), after the field count.
decodeScryptParams(parts, c1) ==
    The({ IF params.err # "nil" THEN DecodeFailed(params.err, c2)
          ELSE The({ IF salt.err # "nil" THEN DecodeFailed(salt.err, c3)
                     ELSE The({ IF digest.err # "nil" THEN DecodeFailed(digest.err, c4)
                                ELSE Decoded("nil",
                                             [Cost           |-> params.vals[1],
                                              Block          |-> params.vals[2],
                                              Parrellization |-> params.vals[3],
                                              SaltLength     |-> Len(salt.bytes),
                                              KeyLength      |-> Len(digest.bytes)],
                                             salt.bytes, digest.bytes, c4) :
                                digest \in {DecodeStd(parts[5], TRUE)},
                                c4 \in {Then(c3, "base64.DecodeString",
                                             DecodeStd(parts[5], TRUE).err)} }) :
                     salt \in {DecodeStd(parts[4], TRUE)},
                     c3 \in {Then(c2, "base64.DecodeString", DecodeStd(parts[4], TRUE).err)} }) :
          params \in {Sscanf(parts[3],
                             <<"l", "n", "=", "%d", ",", "r", "=", "%d", ",", "p", "=", "%d">>,
                             FALSE, <<32, 32, 32>>)},
          c2 \in {Then(c1, "fmt.Sscanf",
                       Sscanf(parts[3],
                              <<"l", "n", "=", "%d", ",", "r", "=", "%d", ",", "p", "=", "%d">>,
                              FALSE, <<32, 32, 32>>).err)} })

\* decodeScryptHash(encodedHash)
decodeScryptHash(encodedHash) ==
    The({ IF Len(parts) # 5
          THEN DecodeFailed(ErrInvalidHash, <<Call("strings.Split", "ok")>>)
          ELSE decodeScryptParams(parts, <<Call("strings.Split", "ok")>>) :
          parts \in {Split(encodedHash, "$")} })

-----------------------------------------------------------------------------
(* Comparators *)

\* A wrong CompareBcrypt: the primitive runs before the length is checked.
CompareBcryptPrimitiveFirst(pw, h) ==
    The({ IF err # "nil"
          THEN Result(err, <<Call("bcrypt.CompareHashAndPassword", err)>>)
          ELSE The({ Result(lenErr, <<Call("bcrypt.CompareHashAndPassword", err),
                                      Call("validateBcryptPasswordLength", lenErr)>>) :
                     lenErr \in {validateBcryptPasswordLength(pw)} }) :
          err \in {BcryptCompareHashAndPassword(h, pw)} })

\* CompareBcrypt(ctx, password, hash)
CompareBcrypt(pw, h) ==
    The({ IF lenErr # "nil"
          THEN Result(lenErr, <<Call("validateBcryptPasswordLength", lenErr)>>)
          ELSE The({ Result(err, <<Call("validateBcryptPasswordLength", lenErr),
                                   Call("bcrypt.CompareHashAndPassword", err)>>) :
                     err \in {BcryptCompareHashAndPassword(h, pw)} }) :
          lenErr \in {validateBcryptPasswordLength(pw)} })

\* The end of the four comparators that derive a key: success only when
\* subtle.ConstantTimeCompare finds the stored and the derived key equal.
CompareKeys(stored, derived, calls) ==
    The({ IF cmp = 1 THEN Result("nil", Then(calls, "subtle.ConstantTimeCompare", "1"))
          ELSE Result(ErrMismatchedHashAndPassword,
                      Then(calls, "subtle.ConstantTimeCompare", "0")) :
          cmp \in {ConstantTimeCompare(stored, derived)} })

\* A wrong comparator body: a failure to decode is reported as a mismatch.
CompareArgon2Conflating(mode, kdf, pw, h) ==
    The({ IF d.err # "nil" THEN Result(ErrMismatchedHashAndPassword, d.calls)
          ELSE The({ IF k.panic THEN Result("panic", Then(d.calls, kdf, "panic"))
                     ELSE CompareKeys(d.hash, k.key, Then(d.calls, kdf, "nil")) :
                     k \in {Argon2Key(mode, pw, d.salt, d.p.Iterations, d.p.Memory,
                                      d.p.Parallelism, d.p.KeyLength)} }) :
          d \in {decodeArgon2idHash(h)} })

\* The common body of CompareArgon2id (argon2.IDKey, mode 2) and
\* CompareArgon2i (argon2.Key, mode 1).
CompareArgon2(mode, kdf, pw, h) ==
    The({ IF d.err # "nil" THEN Result(d.err, d.calls)
          ELSE The({ IF k.panic THEN Result("panic", Then(d.calls, kdf, "panic"))
                     ELSE CompareKeys(d.hash, k.key, Then(d.calls, kdf, "nil")) :
                     k \in {Argon2Key(mode, pw, d.salt, d.p.Iterations, d.p.Memory,
                                      d.p.Parallelism, d.p.KeyLength)} }) :
          d \in {decodeArgon2idHash(h)} })

\* CompareArgon2id(ctx, password, hash)
CompareArgon2id(pw, h) == CompareArgon2(2, "argon2.IDKey", pw, h)

\* CompareArgon2i(ctx, password, hash)
CompareArgon2i(pw, h) == CompareArgon2(1, "argon2.Key", pw, h)

\* ComparePbkdf2(ctx, password, hash).  The selected hash constructor goes
\* straight into pbkdf2.Key: the selection has no error result, so a
\* selection that fails cannot return and the call panics.
ComparePbkdf2(pw, h) ==
    The({ IF d.err # "nil" THEN Result(d.err, d.calls)
          ELSE The({ IF prf = 0
                     THEN Result("panic",
                                 Then(d.calls, "getPseudorandomFunctionForPbkdf2", "fails"))
                     ELSE CompareKeys(d.hash,
                                      Pbkdf2Key(pw, d.salt, d.p.Iterations, d.p.KeyLength, prf),
                                      d.calls \o <<Call("getPseudorandomFunctionForPbkdf2", "ok"),
                                                   Call("pbkdf2.Key", "nil")>>) :
                     prf \in {getPseudorandomFunctionForPbkdf2(d.p.Algorithm)} }) :
          d \in {decodePbkdf2Hash(h)} })

\* A wrong CompareScrypt: an error of scrypt.Key is reported as a mismatch.
CompareScryptConflating(pw, h) ==
    The({ IF d.err # "nil" THEN Result(d.err, d.calls)
          ELSE The({ IF k.panic THEN Result("panic", Then(d.calls, "scrypt.Key", "panic"))
                     ELSE IF k.err # "nil"
                     THEN Result(ErrMismatchedHashAndPassword,
                                 Then(d.calls, "scrypt.Key", k.err))
                     ELSE CompareKeys(d.hash, k.key, Then(d.calls, "scrypt.Key", "nil")) :
                     k \in {ScryptKey(pw, d.salt, d.p.Cost, d.p.Block, d.p.Parrellization,
                                      d.p.KeyLength)} }) :
          d \in {decodeScryptHash(h)} })

\* CompareScrypt(ctx, password, hash)
CompareScrypt(pw, h) ==
    The({ IF d.err # "nil" THEN Result(d.err, d.calls)
          ELSE The({ IF k.panic THEN Result("panic", Then(d.calls, "scrypt.Key", "panic"))
                     ELSE IF k.err # "nil"
                     THEN Result(k.err, Then(d.calls, "scrypt.Key", k.err))
                     ELSE CompareKeys(d.hash, k.key, Then(d.calls, "scrypt.Key", "nil")) :
                     k \in {ScryptKey(pw, d.salt, d.p.Cost, d.p.Block, d.p.Parrellization,
                                      d.p.KeyLength)} }) :
          d \in {decodeScryptHash(h)} })

MarkerSSHA == <<"{","S","S","H","A","}">>

MarkerSSHA256 == <<"{","S","S","H","A","2","5","6","}">>

MarkerSSHA512 == <<"{","S","S","H","A","5","1","2","}">>

\* The common body of CompareSSHA, CompareSSHA256 and CompareSSHA512: every
\* error of the validator becomes ErrMismatchedHashAndPassword.
CompareSalted(fn, marker, size, pw, h) ==
    IF SaltedValidate(marker, size, pw, h)
    THEN Result("nil", <<Call(fn, "nil")>>)
    ELSE Result(ErrMismatchedHashAndPassword, <<Call(fn, "error")>>)

\* CompareSSHA(ctx, password, hash)
CompareSSHA(pw, h) == CompareSalted("ssha.Validate", MarkerSSHA, 20, pw, h)

\* CompareSSHA256(ctx, password, hash)
CompareSSHA256(pw, h) == CompareSalted("ssha256.Validate", MarkerSSHA256, 32, pw, h)

\* CompareSSHA512(ctx, password, hash)
CompareSSHA512(pw, h) == CompareSalted("ssha512.Validate", MarkerSSHA512, 64, pw, h)

-----------------------------------------------------------------------------
(* Classifier predicates: the regular expressions, all anchored at the start *)

\* A wrong IsBcryptHash: the letter after the 2 is required.
IsBcryptHashLetterRequired(h) ==
    /\ HasPrefix(h, <<"$", "2">>)
    /\ Len(h) >= 4 /\ h[3] \in {"a", "b", "z", "y"} /\ h[4] = "$"

\* ^\$2[abzy]?\$
IsBcryptHash(h) ==
    /\ HasPrefix(h, <<"$", "2">>)
    /\ \/ Len(h) >= 3 /\ h[3] = "$"
       \/ Len(h) >= 4 /\ h[3] \in {"a", "b", "z", "y"} /\ h[4] = "$"

\* ^\$argon2id\$
IsArgon2idHash(h) == HasPrefix(h, <<"$","a","r","g","o","n","2","i","d","$">>)

\* A wrong IsArgon2iHash: the "$" that ends the name is not required.
IsArgon2iHashUnterminated(h) == HasPrefix(h, <<"$","a","r","g","o","n","2","i">>)

\* ^\$argon2i\$
IsArgon2iHash(h) == HasPrefix(h, <<"$","a","r","g","o","n","2","i","$">>)

\* ^\$pbkdf2-sha[0-9]{1,3}\$
IsPbkdf2Hash(h) ==
    /\ HasPrefix(h, <<"$","p","b","k","d","f","2","-","s","h","a">>)
    /\ \E n \in 1..3 :
          /\ Len(h) >= 12 + n
          /\ \A i \in 12..(11 + n) : IsDigit(h[i])
          /\ h[12 + n] = "$"

\* ^\$scrypt\$
IsScryptHash(h) == HasPrefix(h, <<"$","s","c","r","y","p","t","$">>)

\* ^{SSHA}.*
IsSSHAHash(h) == HasPrefix(h, MarkerSSHA)

\* ^{SSHA256}.*
IsSSHA256Hash(h) == HasPrefix(h, MarkerSSHA256)

\* ^{SSHA512}.*
IsSSHA512Hash(h) == HasPrefix(h, MarkerSSHA512)

\* A wrong IsValidHashFormat: the last of the salted formats is forgotten.
IsValidHashFormatWithoutSSHA512(h) ==
    IF IsArgon2iHash(h) \/ IsArgon2idHash(h) \/ IsBcryptHash(h) \/ IsPbkdf2Hash(h)
       \/ IsScryptHash(h) \/ IsSSHAHash(h) \/ IsSSHA256Hash(h)
    THEN TRUE
    ELSE FALSE

\* IsValidHashFormat(hash)
IsValidHashFormat(h) ==
    IF IsArgon2iHash(h) \/ IsArgon2idHash(h) \/ IsBcryptHash(h) \/ IsPbkdf2Hash(h)
       \/ IsScryptHash(h) \/ IsSSHAHash(h) \/ IsSSHA256Hash(h) \/ IsSSHA512Hash(h)
    THEN TRUE
    ELSE FALSE

-----------------------------------------------------------------------------
(* The dispatcher *)

\* A wrong Compare: the argon2i case calls the argon2id comparator.
CompareMisrouted(pw, h) ==
    IF IsBcryptHash(h) THEN CompareBcrypt(pw, h)
    ELSE IF IsArgon2idHash(h) THEN CompareArgon2id(pw, h)
    ELSE IF IsArgon2iHash(h) THEN CompareArgon2id(pw, h)
    ELSE IF IsPbkdf2Hash(h) THEN ComparePbkdf2(pw, h)
    ELSE IF IsScryptHash(h) THEN CompareScrypt(pw, h)
    ELSE IF IsSSHAHash(h) THEN CompareSSHA(pw, h)
    ELSE IF IsSSHA256Hash(h) THEN CompareSSHA256(pw, h)
    ELSE IF IsSSHA512Hash(h) THEN CompareSSHA512(pw, h)
    ELSE Result(ErrUnknownHashAlgorithm, <<>>)

\* Compare(ctx, password, hash): the switch takes the first case that matches.
Compare(pw, h) ==
    IF IsBcryptHash(h) THEN CompareBcrypt(pw, h)
    ELSE IF IsArgon2idHash(h) THEN CompareArgon2id(pw, h)
    ELSE IF IsArgon2iHash(h) THEN CompareArgon2i(pw, h)
    ELSE IF IsPbkdf2Hash(h) THEN ComparePbkdf2(pw, h)
    ELSE IF IsScryptHash(h) THEN CompareScrypt(pw, h)
    ELSE IF IsSSHAHash(h) THEN CompareSSHA(pw, h)
    ELSE IF IsSSHA256Hash(h) THEN CompareSSHA256(pw, h)
    ELSE IF IsSSHA512Hash(h) THEN CompareSSHA512(pw, h)
    ELSE Result(ErrUnknownHashAlgorithm, <<>>)

-----------------------------------------------------------------------------
(* Bounds of the model *)

\* How many calls of the package one behaviour makes on its password and hash.
MaxCalls == 2

\* The salt and key lengths the external hashers are configured with.
SaltLen == 4

KeyLen == 4

\* How many fields too many a stored hash may have.
MaxExtraFields == 1

-----------------------------------------------------------------------------
(* Passwords and stored hashes.  The stored hashes are those of the package's *)
(* tests: the output of the external hashers (Generate) for a password, and  *)
(* damaged or foreign variants of it.                                        *)

\* "test"
PwTest == <<116, 101, 115, 116>>

\* mkpw(t, n): a password of n bytes.
mkpw(n) == [i \in 1..n |-> 97 + (i % 26)]

\* mod[len(pw)-1] = ^pw[len(pw)-1]: the password with its last byte flipped.
FlipLast(pw) == [pw EXCEPT ![Len(pw)] = 255 - pw[Len(pw)]]

Salt == [i \in 1..SaltLen |-> (37 * i + 11) % 256]

OtherSalt == [i \in 1..SaltLen |-> (41 * i + 5) % 256]

BcryptSalt == [i \in 1..22 |-> B64Bcrypt[((7 * i) % 64) + 1]]

\* strconv.Itoa for the lengths written into a hash (below 1000).
Itoa(n) ==
    IF n < 10 THEN <<Digits[n + 1]>>
    ELSE IF n < 100 THEN <<Digits[(n \div 10) + 1], Digits[(n % 10) + 1]>>
    ELSE <<Digits[(n \div 100) + 1], Digits[((n \div 10) % 10) + 1], Digits[(n % 10) + 1]>>

\* The text with one character replaced by the next one of the alphabet.
Altered(alpha, text, i) ==
    [text EXCEPT ![i] = alpha[((AlphaVal(alpha, text[i]) + 1) % 64) + 1]]

\* fields too many, 1..MaxExtraFields of them.
ExtraFields(n) == [i \in 1..n |-> <<"e","x","t","r","a">>]

Case(scheme, variant, text) == [scheme |-> scheme, variant |-> variant, hash |-> text]

\* "$" + fields joined by "$"
Dollar(fields) == Join(<<<<>>>> \o fields, "$")

BcryptCases(g) ==
    LET digest == BcryptDigest(g, 4, BcryptSalt)
        body   == <<"0","4","$">> \o BcryptSalt \o digest
    IN  { Case("bcrypt", "valid", <<"$","2","a","$">> \o body),
          Case("bcrypt", "minor-b", <<"$","2","b","$">> \o body),
          Case("bcrypt", "minor-y", <<"$","2","y","$">> \o body),
          Case("bcrypt", "no-minor", <<"$","2","$">> \o body),
          Case("bcrypt", "digest-changed",
               <<"$","2","a","$">> \o <<"0","4","$">> \o BcryptSalt
                   \o Altered(B64Bcrypt, digest, 31)),
          Case("bcrypt", "cost-low", <<"$","2","a","$","0","3","$">> \o BcryptSalt \o digest),
          Case("bcrypt", "short", <<"$","2","a","$","0","4","$">>),
          Case("bcrypt", "minor-z", <<"$","2","z","$">> \o body),
          Case("none", "minor-two", <<"$","2","a","b","$">> \o body),
          Case("none", "minor-x", <<"$","2","x","$">> \o body),
          Case("none", "plain", <<"h","a","s","h">>) }

Argon2Cases(scheme, name, mode, g) ==
    LET V  == <<"v","=","1","9">>
        P  == <<"m","=","3","2",",","t","=","2",",","p","=","4">>
        S  == EncodeRawStd(Salt)
        D  == EncodeRawStd(Argon2Key(mode, g, Salt, 2, 32, 4, KeyLen).key)
        F(v, p, s, d) == Dollar(<<name, v, p, s, d>>)
    IN  { Case(scheme, "valid", F(V, P, S, D)),
          Case(scheme, "version-signed", F(<<"v","=","+","1","9">>, P, S, D)),
          Case(scheme, "version-other", F(<<"v","=","1","8">>, P, S, D)),
          Case(scheme, "version-other-damaged",
               F(<<"v","=","1","8">>, <<"a","a","a","a">>, <<"(">> \o S, <<"(">> \o D)),
          Case(scheme, "version-unparsable", F(<<"v","=","x">>, P, S, D)),
          Case(scheme, "params-unparsable", F(V, <<"m","=","3","2",",","t","=","2">>, S, D)),
          Case(scheme, "params-wide",
               F(V, <<"m","=","3","2",",","t","=","2",",","p","=","2","5","6">>, S, D)),
          Case(scheme, "rounds-zero",
               F(V, <<"m","=","3","2",",","t","=","0",",","p","=","4">>, S, D)),
          Case(scheme, "salt-corrupt", F(V, P, <<"(">> \o S, D)),
          Case(scheme, "salt-other", F(V, P, EncodeRawStd(OtherSalt), D)),
          Case(scheme, "digest-corrupt", F(V, P, S, <<"(">> \o D)),
          Case(scheme, "digest-changed", F(V, P, S, Altered(B64Std, D, 1))),
          Case(scheme, "digest-last-changed", F(V, P, S, Altered(B64Std, D, Len(D)))),
          Case(scheme, "fields-fewer", Dollar(<<name, V, S, D>>)) }
        \cup { Case(scheme, "fields-more", Dollar(<<name, V, P, S, D>> \o ExtraFields(n))) :
                 n \in 1..MaxExtraFields }

Pbkdf2Name(alg) == <<"p","b","k","d","f","2","-">> \o alg

Pbkdf2Cases(g) ==
    LET I  == <<"i","=","1","0","0","0",",","l","=">>
        P  == I \o Itoa(KeyLen)
        S  == EncodeRawStd(Salt)
        K(prf) == EncodeRawStd(Pbkdf2Key(g, Salt, 1000, KeyLen, prf))
        N  == Pbkdf2Name(<<"s","h","a","2","5","6">>)
        D  == K(3)
    IN  { Case("pbkdf2", "valid", Dollar(<<N, P, S, D>>)),
          Case("pbkdf2", "valid-sha1", Dollar(<<Pbkdf2Name(<<"s","h","a","1">>), P, S, K(1)>>)),
          Case("pbkdf2", "valid-sha224",
               Dollar(<<Pbkdf2Name(<<"s","h","a","2","2","4">>), P, S, K(2)>>)),
          Case("pbkdf2", "valid-sha384",
               Dollar(<<Pbkdf2Name(<<"s","h","a","3","8","4">>), P, S, K(4)>>)),
          Case("pbkdf2", "valid-sha512",
               Dollar(<<Pbkdf2Name(<<"s","h","a","5","1","2">>), P, S, K(5)>>)),
          Case("pbkdf2", "digest-name-other",
               Dollar(<<Pbkdf2Name(<<"s","h","a","5","1","2">>), P, S, D>>)),
          Case("pbkdf2", "digest-name-unsupported",
               Dollar(<<Pbkdf2Name(<<"s","h","a","9","9","9">>), P, S, D>>)),
          Case("none", "digest-name-no-digits",
               Dollar(<<Pbkdf2Name(<<"s","h","a">>), P, S, D>>)),
          Case("pbkdf2", "length-other", Dollar(<<N, I \o Itoa(KeyLen + 7), S, D>>)),
          Case("pbkdf2", "params-unparsable", Dollar(<<N, <<"a","a","a","a">>, S, D>>)),
          Case("pbkdf2", "params-uppercase",
               Dollar(<<N, <<"I","=","1","0","0","0",",","l","=">> \o Itoa(KeyLen), S, D>>)),
          Case("pbkdf2", "salt-corrupt", Dollar(<<N, P, <<"(">> \o S, D>>)),
          Case("pbkdf2", "salt-other", Dollar(<<N, P, EncodeRawStd(OtherSalt), D>>)),
          Case("pbkdf2", "digest-corrupt", Dollar(<<N, P, S, <<"(">> \o D>>)),
          Case("pbkdf2", "digest-changed", Dollar(<<N, P, S, Altered(B64Std, D, 1)>>)),
          Case("pbkdf2", "digest-empty", Dollar(<<N, I \o <<"0">>, S, <<>> >>)),
          Case("pbkdf2", "fields-fewer", Dollar(<<N, S, D>>)) }
        \cup { Case("pbkdf2", "fields-more", Dollar(<<N, P, S, D>> \o ExtraFields(n))) :
                 n \in 1..MaxExtraFields }

ScryptCases(g) ==
    LET N  == <<"s","c","r","y","p","t">>
        P  == <<"l","n","=","1","6","3","8","4",",","r","=","8",",","p","=","1">>
        S  == EncodeStd(Salt)
        D  == EncodeStd(ScryptKey(g, Salt, 16384, 8, 1, KeyLen).key)
    IN  { Case("scrypt", "valid", Dollar(<<N, P, S, D>>)),
          Case("scrypt", "cost-odd",
               Dollar(<<N, <<"l","n","=","1","6","3","8","5",",","r","=","8",",","p","=","1">>,
                        S, D>>)),
          Case("scrypt", "cost-doubled",
               Dollar(<<N, <<"l","n","=","3","2","7","6","8",",","r","=","8",",","p","=","1">>,
                        S, D>>)),
          Case("scrypt", "params-unparsable",
               Dollar(<<N, <<"l","n","=","a","b","c",",","r","=","8",",","p","=","1">>,
                        S, D>>)),
          Case("scrypt", "salt-corrupt", Dollar(<<N, P, <<"(">> \o S, D>>)),
          Case("scrypt", "salt-other", Dollar(<<N, P, EncodeStd(OtherSalt), D>>)),
          Case("scrypt", "digest-corrupt", Dollar(<<N, P, S, <<"(">> \o D>>)),
          Case("scrypt", "digest-changed", Dollar(<<N, P, S, Altered(B64Std, D, 1)>>)),
          Case("scrypt", "digest-empty", Dollar(<<N, P, S, <<>> >>)),
          Case("scrypt", "fields-fewer", Dollar(<<N, S, D>>)) }
        \cup { Case("scrypt", "fields-more", Dollar(<<N, P, S, D>> \o ExtraFields(n))) :
                 n \in 1..MaxExtraFields }

SaltedCases(scheme, marker, size, g) ==
    LET text == EncodeStd(SaltedDigest(size, g, Salt) \o Salt)
    IN  { Case(scheme, "valid", marker \o text),
          Case(scheme, "digest-changed", marker \o Altered(B64Std, text, 1)),
          Case(scheme, "marker-only", marker) }

\* "{SALT}{PASSWORD}"
SaltPasswordTemplate ==
    <<123, 83, 65, 76, 84, 125, 123, 80, 65, 83, 83, 87, 79, 82, 68, 125>>

\* The custom template format of the tests: $<sha>$pf=<template>$<salt>$<digest>,
\* all three in padded base64, the digest being that of the template with the
\* salt and the password filled in ({SALT}{PASSWORD}: salt, then password).
TemplateCases(scheme, name, size, g) ==
    LET T  == <<"p","f","=">> \o EncodeStd(SaltPasswordTemplate)
        S  == EncodeStd(Salt)
        D  == EncodeStd(DeriveKey(110 + size, Salt \o g, <<>>, 0, 0, 0, size))
    IN  { Case(scheme, "valid", Dollar(<<name, T, S, D>>)),
          Case(scheme, "salt-other", Dollar(<<name, T, EncodeStd(OtherSalt), D>>)),
          Case(scheme, "salt-corrupt", Dollar(<<name, T, <<"5","o","p">>, D>>)),
          Case(scheme, "template-empty", Dollar(<<name, <<"p","f","=">>, S, D>>)),
          Case(scheme, "template-missing", Dollar(<<name, <<>>, S, D>>)),
          Case(scheme, "fields-fewer", Dollar(<<name, S, D>>)) }

ForeignCases ==
    { Case("none", "unknown",
           Dollar(<<<<"u","n","k","n","o","w","n">>, <<"1","2">>>>) \o <<"$">> \o BcryptSalt),
      Case("none", "marker-unknown",
           <<"{","S","S","H","A","n","o","t","E","x","i","s","t","e","n","t","}">>
               \o EncodeStd(Salt)) }

Cases(g) ==
    BcryptCases(g)
        \cup Argon2Cases("argon2id", <<"a","r","g","o","n","2","i","d">>, 2, g)
        \cup Argon2Cases("argon2i", <<"a","r","g","o","n","2","i">>, 1, g)
        \cup Pbkdf2Cases(g)
        \cup ScryptCases(g)
        \cup SaltedCases("ssha", MarkerSSHA, 20, g)
        \cup SaltedCases("ssha256", MarkerSSHA256, 32, g)
        \cup SaltedCases("ssha512", MarkerSSHA512, 64, g)
        \cup TemplateCases("sha1-template", <<"s","h","a","1">>, 20, g)
        \cup TemplateCases("sha256-template", <<"s","h","a","2","5","6">>, 32, g)
        \cup TemplateCases("sha512-template", <<"s","h","a","5","1","2">>, 64, g)
        \cup ForeignCases

\* The inputs of one behaviour: the password a hash was generated from, the
\* stored hash, and the password presented for comparison.
Inputs ==
    { [g |-> PwTest, c |-> c, pw |-> q] :
        c \in Cases(PwTest), q \in {PwTest, FlipLast(PwTest), mkpw(73)} }
    \cup
    { [g |-> mkpw(72), c |-> c, pw |-> q] :
        c \in BcryptCases(mkpw(72)), q \in {mkpw(72), FlipLast(mkpw(72)), mkpw(73)} }

-----------------------------------------------------------------------------
(* The state machine: one behaviour fixes a password and a stored hash and   *)
(* calls functions of the package on them.  rets[f] is what f returned       *)
(* ("none" before the call), logs[f] the library calls it made.              *)

Functions ==
    {"Compare", "CompareBcrypt", "CompareArgon2id", "CompareArgon2i", "ComparePbkdf2",
     "CompareScrypt", "CompareSSHA", "CompareSSHA256", "CompareSSHA512",
     "IsValidHashFormat"}

Called == {f \in Functions : rets[f] # "none"}

Init ==
    \E in \in Inputs :
        /\ password = in.pw
        /\ hash = in.c.hash
        /\ gen = [scheme |-> in.c.scheme, variant |-> in.c.variant, pw |-> in.g]
        /\ rets = [f \in Functions |-> "none"]
        /\ logs = [f \in Functions |-> <<>>]

Returns(f, r) ==
    /\ rets[f] = "none"
    /\ Cardinality(Called) < MaxCalls
    /\ rets' = [rets EXCEPT ![f] = r.ret]
    /\ logs' = [logs EXCEPT ![f] = r.calls]
    /\ UNCHANGED <<password, hash, gen>>

CallCompare == \E r \in {Compare(password, hash)} : Returns("Compare", r)

CallCompareBcrypt == \E r \in {CompareBcrypt(password, hash)} : Returns("CompareBcrypt", r)

CallCompareArgon2id == \E r \in {CompareArgon2id(password, hash)} : Returns("CompareArgon2id", r)

CallCompareArgon2i == \E r \in {CompareArgon2i(password, hash)} : Returns("CompareArgon2i", r)

CallComparePbkdf2 == \E r \in {ComparePbkdf2(password, hash)} : Returns("ComparePbkdf2", r)

CallCompareScrypt == \E r \in {CompareScrypt(password, hash)} : Returns("CompareScrypt", r)

CallCompareSSHA == \E r \in {CompareSSHA(password, hash)} : Returns("CompareSSHA", r)

CallCompareSSHA256 == \E r \in {CompareSSHA256(password, hash)} : Returns("CompareSSHA256", r)

CallCompareSSHA512 == \E r \in {CompareSSHA512(password, hash)} : Returns("CompareSSHA512", r)

CallIsValidHashFormat ==
    \E valid \in {IsValidHashFormat(hash)} :
        Returns("IsValidHashFormat", Result(IF valid THEN "true" ELSE "false", <<>>))

Next ==
    \/ CallCompare
    \/ CallCompareBcrypt
    \/ CallCompareArgon2id
    \/ CallCompareArgon2i
    \/ CallComparePbkdf2
    \/ CallCompareScrypt
    \/ CallCompareSSHA
    \/ CallCompareSSHA256
    \/ CallCompareSSHA512
    \/ CallIsValidHashFormat

Spec == Init /\ [][Next]_vars

-----------------------------------------------------------------------------
(* Properties *)

Comparators == Functions \ {"Compare", "IsValidHashFormat"}

KdfComparators == {"CompareArgon2id", "CompareArgon2i", "ComparePbkdf2", "CompareScrypt"}

Argon2Comparators == {"CompareArgon2id", "CompareArgon2i"}

\* The comparator of the first predicate that matches h, the predicates taken
\* in the order bcrypt, argon2id, argon2i, pbkdf2, scrypt, SSHA, SSHA256,
\* SSHA512; "none" when no predicate matches.
Classify(h) ==
    IF IsBcryptHash(h) THEN "CompareBcrypt"
    ELSE IF IsArgon2idHash(h) THEN "CompareArgon2id"
    ELSE IF IsArgon2iHash(h) THEN "CompareArgon2i"
    ELSE IF IsPbkdf2Hash(h) THEN "ComparePbkdf2"
    ELSE IF IsScryptHash(h) THEN "CompareScrypt"
    ELSE IF IsSSHAHash(h) THEN "CompareSSHA"
    ELSE IF IsSSHA256Hash(h) THEN "CompareSSHA256"
    ELSE IF IsSSHA512Hash(h) THEN "CompareSSHA512"
    ELSE "none"

\* The number of fields a split of h on "$" yields.
FieldCount(h) == Cardinality({i \in 1..Len(h) : h[i] = "$"}) + 1

\* The number of fields the decoder of a comparator requires.
RequiredFields(f) == IF f \in Argon2Comparators THEN 6 ELSE 5

\* What the decoder of a comparator makes of h.
DecoderOf(f, h) ==
    IF f = "ComparePbkdf2" THEN decodePbkdf2Hash(h)
    ELSE IF f = "CompareScrypt" THEN decodeScryptHash(h)
    ELSE decodeArgon2idHash(h)

\* A library call that did not succeed: it returned an error or panicked.
Failed(call) == call.out \notin {"ok", "nil", "1", "0"}

Invoked(f, fn) == \E i \in 1..Len(logs[f]) : logs[f][i].fn = fn

\* The stored hashes that are the unchanged output of a hasher of a scheme
\* the package supports.
GeneratedVariants ==
    {"valid", "minor-b", "minor-y", "valid-sha1", "valid-sha224", "valid-sha384",
     "valid-sha512"}

SupportedSchemes ==
    {"bcrypt", "argon2id", "argon2i", "pbkdf2", "scrypt", "ssha", "ssha256", "ssha512"}

TemplateSchemes == {"sha1-template", "sha256-template", "sha512-template"}

C3_FlippedPasswordIsMismatch ==
    ( /\ gen.scheme \in SupportedSchemes
      /\ gen.variant \in GeneratedVariants
      /\ password = FlipLast(gen.pw)
      /\ rets["Compare"] # "none" )
        => rets["Compare"] = ErrMismatchedHashAndPassword

\* C4: CompareBcrypt on a password of more than 72 bytes returns the
\* password-too-long error whatever the hash is, and has not called
\* bcrypt.CompareHashAndPassword.
C4_LengthCheckPrecedesBcrypt ==
    (Len(password) > BcryptMaxLength /\ rets["CompareBcrypt"] # "none") =>
        /\ rets["CompareBcrypt"] = "ErrPasswordTooLong"
        /\ ~Invoked("CompareBcrypt", "bcrypt.CompareHashAndPassword")

\* CompareBcrypt has rejected a password of 73 bytes for the hash "hash".
C4_Witness ==
    /\ Len(password) > BcryptMaxLength
    /\ hash = <<"h", "a", "s", "h">>
    /\ rets["CompareBcrypt"] = "ErrPasswordTooLong"

\* C5: when the split of the hash on "$" yields another number of fields than
\* the decoder requires (6 for argon2id and argon2i, 5 for pbkdf2 and scrypt),
\* the comparator, and Compare when it routes the hash to that comparator,
\* returns ErrInvalidHash having done nothing but the split: no field is
\* parsed and no key is derived.
C5_FieldCountIsChecked ==
    \A f \in KdfComparators :
        FieldCount(hash) # RequiredFields(f) =>
            /\ rets[f] # "none" =>
                  (rets[f] = ErrInvalidHash /\ logs[f] = <<Call("strings.Split", "ok")>>)
            /\ (rets["Compare"] # "none" /\ Classify(hash) = f) =>
                  /\ rets["Compare"] = ErrInvalidHash
                  /\ logs["Compare"] = <<Call("strings.Split", "ok")>>

\* ComparePbkdf2 has rejected an otherwise valid hash with a field too many.
C5_Witness ==
    /\ gen.scheme = "pbkdf2"
    /\ gen.variant = "fields-more"
    /\ FieldCount(hash) > 5
    /\ rets["ComparePbkdf2"] = ErrInvalidHash

\* C6: for a hash of 6 fields whose version field scans as v=<int> with an
\* integer other than the supported version, CompareArgon2id and
\* CompareArgon2i, and Compare when it routes the hash to them, return
\* ErrIncompatibleVersion whatever the other fields and the password are.
C6_VersionIsCheckedFirst ==
    ( /\ FieldCount(hash) = 6
      /\ Sscanf(Split(hash, "$")[3], <<"v", "=", "%d">>, TRUE, <<64>>).err = "nil"
      /\ Sscanf(Split(hash, "$")[3], <<"v", "=", "%d">>, TRUE, <<64>>).vals[1]
             # Argon2Version )
        => \A f \in Argon2Comparators :
              /\ rets[f] # "none" => rets[f] = ErrIncompatibleVersion
              /\ (rets["Compare"] # "none" /\ Classify(hash) = f) =>
                    rets["Compare"] = ErrIncompatibleVersion

\* Compare has rejected the version of an argon2i hash whose parameters, salt
\* and digest are all unreadable.
C6_Witness ==
    /\ gen.scheme = "argon2i"
    /\ gen.variant = "version-other-damaged"
    /\ rets["Compare"] = ErrIncompatibleVersion

\* C7: ComparePbkdf2 on a well-formed hash whose digest name is none of sha1,
\* sha224, sha256, sha384 and sha512 returns the unsupported-digest-algorithm
\* error.
C7_UnsupportedDigestIsAnError ==
    ( /\ gen.scheme = "pbkdf2"
      /\ gen.variant = "digest-name-unsupported"
      /\ rets["ComparePbkdf2"] # "none" )
        => rets["ComparePbkdf2"] = "ErrUnsupportedDigestAlgorithm"

\* C8 as stated: for a valid scrypt hash whose cost is changed to another
\* integer, salt and digest unchanged, Compare returns the mismatch error.
C8_ChangedCostIsMismatch ==
    ( /\ gen.scheme = "scrypt"
      /\ gen.variant \in {"cost-odd", "cost-doubled"}
      /\ rets["Compare"] # "none" )
        => rets["Compare"] = ErrMismatchedHashAndPassword

\* C8 amended: for a valid scrypt hash whose cost is changed to another
\* integer, salt and digest unchanged, decoding succeeds and Compare calls
\* scrypt.Key with the changed cost; it returns the mismatch error when
\* scrypt.Key accepts that cost (a power of two, as 32768) and the error of
\* scrypt.Key when it does not (as 16385); never success or ErrInvalidHash.
C8_ChangedCostIsMismatchOrKdfError ==
    ( /\ gen.scheme = "scrypt"
      /\ gen.variant \in {"cost-odd", "cost-doubled"}
      /\ rets["Compare"] # "none" )
        => /\ decodeScryptHash(hash).err = "nil"
           /\ decodeScryptHash(hash).p.Cost # 16384
           /\ Invoked("Compare", "scrypt.Key")
           /\ rets["Compare"] =
                 IF IsPowerOfTwo(decodeScryptHash(hash).p.Cost)
                 THEN ErrMismatchedHashAndPassword
                 ELSE "scrypt.Error"

\* Compare has returned the error of scrypt.Key for the cost 16385.
C8_Witness ==
    /\ gen.scheme = "scrypt"
    /\ gen.variant = "cost-odd"
    /\ password = gen.pw
    /\ decodeScryptHash(hash).p.Cost = 16385
    /\ rets["Compare"] = "scrypt.Error"

\* C9: IsValidHashFormat returns true if and only if some predicate matches
\* the hash, which is if and only if Compare on that hash, with whatever
\* password, does not return the unknown-hash-algorithm error.
C9_ValidFormatIffCompareKnows ==
    rets["IsValidHashFormat"] # "none" =>
        /\ (rets["IsValidHashFormat"] = "true") <=> (Classify(hash) # "none")
        /\ rets["Compare"] # "none" =>
              ((rets["IsValidHashFormat"] = "true")
                   <=> (rets["Compare"] # ErrUnknownHashAlgorithm))

\* IsValidHashFormat has accepted an SSHA512 hash, which only the last
\* predicate of Compare matches, and Compare has compared it.
C9_Witness ==
    /\ gen.scheme = "ssha512"
    /\ rets["IsValidHashFormat"] = "true"
    /\ rets["Compare"] \notin {"none", ErrUnknownHashAlgorithm}

\* C10: Compare returns no error for a hash in the template format
\* $sha1$, $sha256$ or $sha512$ + pf=<template>$<salt>$<digest> and the
\* password the digest was made of.
C10_TemplateFormatIsAccepted ==
    ( /\ gen.scheme \in TemplateSchemes
      /\ gen.variant = "valid"
      /\ password = gen.pw
      /\ rets["Compare"] # "none" )
        => rets["Compare"] = "nil"

\* The predicates that match h, each named by its comparator.
Matching(h) ==
    {f \in Comparators :
        \/ f = "CompareBcrypt" /\ IsBcryptHash(h)
        \/ f = "CompareArgon2id" /\ IsArgon2idHash(h)
        \/ f = "CompareArgon2i" /\ IsArgon2iHash(h)
        \/ f = "ComparePbkdf2" /\ IsPbkdf2Hash(h)
        \/ f = "CompareScrypt" /\ IsScryptHash(h)
        \/ f = "CompareSSHA" /\ IsSSHAHash(h)
        \/ f = "CompareSSHA256" /\ IsSSHA256Hash(h)
        \/ f = "CompareSSHA512" /\ IsSSHA512Hash(h)}

\* C11: at most one of the eight predicates matches a hash, so that what
\* Compare returns is what every comparator whose predicate matches returns:
\* no ordering of the cases could make Compare return anything else.
C11_PredicatesAreDisjoint ==
    /\ Cardinality(Matching(hash)) <= 1
    /\ rets["Compare"] # "none" =>
          \A f \in Matching(hash) : rets[f] # "none" => rets[f] = rets["Compare"]

\* Compare and CompareArgon2id have accepted the password of an argon2id hash,
\* whose name begins with the name argon2i.
C11_Witness ==
    /\ gen.scheme = "argon2id"
    /\ Matching(hash) = {"CompareArgon2id"}
    /\ rets["Compare"] = "nil"
    /\ rets["CompareArgon2id"] = "nil"

\* h begins with $2a$, $2b$, $2y$ or $2z$.
HasLetterPrefix(h) ==
    \E c \in {"a", "b", "y", "z"} : HasPrefix(h, <<"$", "2", c, "$">>)

\* h begins with $2$.
HasBarePrefix(h) == HasPrefix(h, <<"$", "2", "$">>)

\* Compare took its bcrypt case: CompareBcrypt's length check is the first
\* thing it called.
RoutedToBcrypt ==
    /\ logs["Compare"] # <<>>
    /\ logs["Compare"][1].fn = "validateBcryptPasswordLength"

\* C12 as stated: the hash Compare was called on is classified as bcrypt, and
\* Compare took its bcrypt case, if and only if the hash begins with $2a$,
\* $2b$, $2y$ or $2z$.
C12_BcryptIffLetterPrefix ==
    rets["Compare"] # "none" =>
        /\ IsBcryptHash(hash) <=> HasLetterPrefix(hash)
        /\ RoutedToBcrypt <=> HasLetterPrefix(hash)

\* C12 amended: the hash Compare was called on is classified as bcrypt, and
\* Compare took its bcrypt case, if and only if the hash begins with $2$,
\* $2a$, $2b$, $2y$ or $2z$.
C12_BcryptIffBareOrLetterPrefix ==
    rets["Compare"] # "none" =>
        /\ IsBcryptHash(hash) <=> (HasBarePrefix(hash) \/ HasLetterPrefix(hash))
        /\ RoutedToBcrypt <=> (HasBarePrefix(hash) \/ HasLetterPrefix(hash))

\* Compare has taken its bcrypt case for a hash that begins with $2$ and has
\* accepted the password.
C12_Witness ==
    /\ HasBarePrefix(hash)
    /\ RoutedToBcrypt
    /\ rets["Compare"] = "nil"

\* C13: when the decoder of a comparator that was called succeeds on the hash,
\* the SaltLength of its parameters is the length of the decoded salt and the
\* KeyLength the length of the decoded digest; the l= of a pbkdf2 hash does
\* not count: a hash that differs from a generated one only in l= is still
\* the hash of the password it was generated from.
C13_LengthsAreThoseDecoded ==
    /\ \A f \in KdfComparators :
          (rets[f] # "none" /\ DecoderOf(f, hash).err = "nil") =>
              /\ DecoderOf(f, hash).p.SaltLength = Len(DecoderOf(f, hash).salt)
              /\ DecoderOf(f, hash).p.KeyLength = Len(DecoderOf(f, hash).hash)
    /\ ( /\ gen.scheme = "pbkdf2"
         /\ gen.variant = "length-other"
         /\ password = gen.pw
         /\ rets["ComparePbkdf2"] # "none" )
           => rets["ComparePbkdf2"] = "nil"

\* ComparePbkdf2 has accepted the password of a hash whose l= is not the
\* length of its digest.
C13_Witness ==
    /\ gen.scheme = "pbkdf2"
    /\ gen.variant = "length-other"
    /\ Sscanf(Split(hash, "$")[3], <<"i", "=", "%d", ",", "l", "=", "%d">>,
              FALSE, <<32, 32>>).vals[2] # Len(decodePbkdf2Hash(hash).hash)
    /\ rets["ComparePbkdf2"] = "nil"

\* C14: when the digest field of an otherwise well-formed pbkdf2 or scrypt
\* hash decodes to no bytes, neither the comparator nor Compare routing the
\* hash to it returns success, whatever the password is.
C14_EmptyDigestNeverSucceeds ==
    \A f \in {"ComparePbkdf2", "CompareScrypt"} :
        (DecoderOf(f, hash).err = "nil" /\ Len(DecoderOf(f, hash).hash) = 0) =>
            /\ rets[f] # "nil"
            /\ Classify(hash) = f => rets["Compare"] # "nil"

====
